---- MODULE Spec2Model ----
(***************************************************************************)
(* Model of the Roo memory-bank MCP server (src/src/index.ts): the store   *)
(* initialisation, read_memory_bank and append_memory_bank handlers, run   *)
(* by concurrent requests over one filesystem.  Strings are sequences of   *)
(* one-character strings and string indices are 0-based as in JavaScript.  *)
(***************************************************************************)
EXTENDS Integers, Sequences, FiniteSets, TLC

\* ---------------------------------------------------------------- bounds
NProcs == 2          \* requests the server receives in a run
MaxClock == 1        \* seconds the wall clock may advance
MaxFaults == 1       \* fs calls that fail for a reason outside the model

\* ------------------------------------------------- JavaScript string ops
Whitespace == {" ", "\n", "\t"}

\* s.slice(a, b)
Slice(s, a, b) == SubSeq(s, a + 1, b)

\* s.indexOf(pat, from): 0-based index of the first occurrence at or after
\* from, -1 when there is none
IndexOf(s, pat, from) ==
  LET cand == {i \in from..(Len(s) - Len(pat)) : Slice(s, i, i + Len(pat)) = pat}
  IN IF cand = {} THEN -1 ELSE CHOOSE i \in cand : \A j \in cand : i <= j

StartsWith(s, pre) == Len(pre) <= Len(s) /\ Slice(s, 0, Len(pre)) = pre

\* s.endsWith(suf)
EndsWith(s, suf) == Len(suf) <= Len(s) /\ Slice(s, Len(s) - Len(suf), Len(s)) = suf

\* s.trimEnd()
TrimEnd(s) ==
  LET keep == {i \in 1..Len(s) : s[i] \notin Whitespace}
  IN IF keep = {} THEN <<>>
     ELSE SubSeq(s, 1, CHOOSE i \in keep : \A j \in keep : j <= i)

\* s.trimStart()
TrimStart(s) ==
  LET keep == {i \in 1..Len(s) : s[i] \notin Whitespace}
  IN IF keep = {} THEN <<>>
     ELSE SubSeq(s, CHOOSE i \in keep : \A j \in keep : i <= j, Len(s))

\* s.replace(pat, rep) with a string pattern: the first occurrence only
Replace(s, pat, rep) ==
  LET i == IndexOf(s, pat, 0)
  IN IF i = -1 THEN s ELSE Slice(s, 0, i) \o rep \o Slice(s, i + Len(pat), Len(s))

\* s.substring(a, b) for 0 <= a <= b
Substring(s, a, b) == Slice(s, a, IF b > Len(s) THEN Len(s) ELSE b)

Contains(s, pat) == IndexOf(s, pat, 0) # -1

\* ------------------------------------------------------------- path.join
RECURSIVE Split(_)
\* p.split("/")
Split(p) ==
  LET i == IndexOf(p, <<"/">>, 0)
  IN IF i = -1 THEN <<p>>
     ELSE <<Slice(p, 0, i)>> \o Split(Slice(p, i + 1, Len(p)))

RECURSIVE NormalizeSegs(_, _, _)
\* normalizeString of node's path module: drops "" and ".", ".." pops the
\* previous segment (and is kept only when allowAboveRoot)
NormalizeSegs(segs, acc, allowAboveRoot) ==
  IF segs = <<>> THEN acc
  ELSE LET h == Head(segs)
           t == Tail(segs)
       IN IF h = <<>> \/ h = <<".">> THEN NormalizeSegs(t, acc, allowAboveRoot)
          ELSE IF h = <<".",".">>
            THEN IF acc # <<>> /\ acc[Len(acc)] # <<".",".">>
                   THEN NormalizeSegs(t, SubSeq(acc, 1, Len(acc) - 1), allowAboveRoot)
                   ELSE IF allowAboveRoot
                          THEN NormalizeSegs(t, Append(acc, h), allowAboveRoot)
                          ELSE NormalizeSegs(t, acc, allowAboveRoot)
            ELSE NormalizeSegs(t, Append(acc, h), allowAboveRoot)

RECURSIVE JoinSegs(_)
JoinSegs(segs) ==
  IF segs = <<>> THEN <<>>
  ELSE IF Len(segs) = 1 THEN segs[1]
  ELSE segs[1] \o <<"/">> \o JoinSegs(Tail(segs))

\* path.normalize(p) (posix)
Normalize(p) ==
  IF p = <<>> THEN <<".">>
  ELSE LET isAbsolute == p[1] = "/"
           trailing == p[Len(p)] = "/"
           body == JoinSegs(NormalizeSegs(Split(p), <<>>, ~isAbsolute))
           body1 == IF body = <<>> /\ ~isAbsolute THEN <<".">> ELSE body
           body2 == IF body1 # <<>> /\ trailing THEN body1 \o <<"/">> ELSE body1
       IN IF isAbsolute THEN <<"/">> \o body2 ELSE body2

\* path.join(a, b) (posix): empty arguments are skipped
PathJoin(a, b) ==
  IF a = <<>> /\ b = <<>> THEN <<".">>
  ELSE IF a = <<>> THEN Normalize(b)
  ELSE IF b = <<>> THEN Normalize(a)
  ELSE Normalize(a \o <<"/">> \o b)

\* the directory a normalized absolute path lies in
ParentDir(p) ==
  LET slashes == {i \in 1..Len(p) : p[i] = "/"}
      last == CHOOSE i \in slashes : \A j \in slashes : j <= i
  IN IF last = 1 THEN <<"/">> ELSE SubSeq(p, 1, last - 1)

\* ------------------------------------------------------------- constants
\* the directory the server is started in (VSCODE_CWD or process.cwd())
BASE_PATH == <<"/","w">>
MEMORY_BANK_DIR_NAME == <<"m","e","m","o","r","y","-","b","a","n","k">>
MEMORY_BANK_PATH == PathJoin(BASE_PATH, MEMORY_BANK_DIR_NAME)

productContext_md == <<"p","r","o","d","u","c","t","C","o","n","t","e","x","t",".","m","d">>
activeContext_md == <<"a","c","t","i","v","e","C","o","n","t","e","x","t",".","m","d">>
progress_md == <<"p","r","o","g","r","e","s","s",".","m","d">>
decisionLog_md == <<"d","e","c","i","s","i","o","n","L","o","g",".","m","d">>
systemPatterns_md == <<"s","y","s","t","e","m","P","a","t","t","e","r","n","s",".","m","d">>

\* Object.entries(INITIAL_FILES), in insertion order
INITIAL_FILES ==
  << <<productContext_md, <<"#"," ","P","r","o","d","u","c","t"," ","C","o","n","t","e","x","t","\n","\n","T","h","i","s"," ","f","i","l","e"," ","p","r","o","v","i","d","e","s"," ","a"," ","h","i","g","h","-","l","e","v","e","l"," ","o","v","e","r","v","i","e","w",".",".",".","\n","\n","*">>>>,
     <<activeContext_md, <<"#"," ","A","c","t","i","v","e"," ","C","o","n","t","e","x","t","\n","\n","T","h","i","s"," ","f","i","l","e"," ","t","r","a","c","k","s"," ","t","h","e"," ","p","r","o","j","e","c","t","'","s"," ","c","u","r","r","e","n","t"," ","s","t","a","t","u","s",".",".",".","\n","\n","*">>>>,
     <<progress_md, <<"#"," ","P","r","o","g","r","e","s","s","\n","\n","T","h","i","s"," ","f","i","l","e"," ","t","r","a","c","k","s"," ","t","h","e"," ","p","r","o","j","e","c","t","'","s"," ","p","r","o","g","r","e","s","s",".",".",".","\n","\n","*">>>>,
     <<decisionLog_md, <<"#"," ","D","e","c","i","s","i","o","n"," ","L","o","g","\n","\n","T","h","i","s"," ","f","i","l","e"," ","r","e","c","o","r","d","s"," ","a","r","c","h","i","t","e","c","t","u","r","a","l"," ","a","n","d"," ","i","m","p","l","e","m","e","n","t","a","t","i","o","n"," ","d","e","c","i","s","i","o","n","s",".",".",".","\n","\n","*">>>>,
     <<systemPatterns_md, <<"#"," ","S","y","s","t","e","m"," ","P","a","t","t","e","r","n","s"," ","*","O","p","t","i","o","n","a","l","*","\n","\n","T","h","i","s"," ","f","i","l","e"," ","d","o","c","u","m","e","n","t","s"," ","r","e","c","u","r","r","i","n","g"," ","p","a","t","t","e","r","n","s",".",".",".","\n","\n","*">>>> >>

\* INITIAL_FILES[fileName]: the template, or undefined (modelled as <<>>,
\* which is falsy like undefined)
InitialFilesLookup(fileName) ==
  IF \E k \in 1..Len(INITIAL_FILES) : INITIAL_FILES[k][1] = fileName
    THEN INITIAL_FILES[CHOOSE k \in 1..Len(INITIAL_FILES) : INITIAL_FILES[k][1] = fileName][2]
    ELSE <<>>

\* ---------------------------------------------------------------- clock
Digit(d) == <<"0", "1", "2", "3", "4", "5", "6", "7", "8", "9">>[d + 1]

\* new Date().toISOString() at second t of the modelled minute
ToISOString(t) ==
  <<"2","0","2","6","-","1","1","-","0","4","T","0","9",":","5","3",":">> \o <<Digit((t \div 10) % 6), Digit(t % 10)>> \o <<".","0","0","0","Z">>

\* getCurrentTimestamp()
getCurrentTimestamp(t) == Substring(Replace(ToISOString(t), <<"T">>, <<" ">>), 0, 19)

TIMESTAMP_PLACEHOLDER == <<"Y","Y","Y","Y","-","M","M","-","D","D"," ","H","H",":","M","M",":","S","S">>

\* ------------------------------------------------------ JavaScript values
Undefined == [t |-> "undefined", v |-> <<>>]
Null == [t |-> "null", v |-> <<>>]
Str(s) == [t |-> "string", v |-> s]
Num(n) == [t |-> "number", v |-> <<n>>]
Arr(elems) == [t |-> "array", v |-> elems]
\* an element of entries; a missing property is Undefined
Obj(fileName, entry, sectionHeader) ==
  [t |-> "object", v |-> <<fileName, entry, sectionHeader>>]
file_name(e) == e.v[1]
entry_of(e) == e.v[2]
section_header(e) == e.v[3]

\* !x
Falsy(x) ==
  \/ x.t \in {"undefined", "null"}
  \/ x.t = "string" /\ x.v = <<>>
  \/ x.t = "number" /\ x.v = <<0>>

\* x.length === 0 (strings and arrays have a length, the rest undefined)
LengthIsZero(x) == x.t \in {"string", "array"} /\ Len(x.v) = 0

\* ------------------------------------------------------------ the inputs
notes_md == <<"n","o","t","e","s",".","m","d">>
missing_md == <<"m","i","s","s","i","n","g",".","m","d">>
outside_md == <<".",".","/","o","u","t","s","i","d","e",".","m","d">>
absolute_md == <<"/","a","b","s",".","m","d">>
readme_txt == <<"r","e","a","d","m","e",".","t","x","t">>

Decision == <<"#","#"," ","D","e","c","i","s","i","o","n">>
Progress == <<"#","#"," ","P","r","o","g","r","e","s","s">>
Done == <<"#","#"," ","D","o","n","e">>
ProgressTitle == <<"#"," ","P","r","o","g","r","e","s","s">>

\* the body of the example in the specification
ExampleBody == <<"#","#"," ","D","e","c","i","s","i","o","n","\n","A","\n","#","#"," ","P","r","o","g","r","e","s","s","\n","B">>
\* a section that ends in a space and a blank line before the next header
SpacedBody == <<"#","#"," ","D","e","c","i","s","i","o","n","\n","A"," ","\n","\n","#","#"," ","P","r","o","g","r","e","s","s","\n","B","\n">>

ReadRequests ==
  { [tool |-> "read_memory_bank", arg |-> a] :
      a \in { Undefined,
              Arr(<<>>),
              Arr(<<Str(missing_md), Str(decisionLog_md)>>),
              Arr(<<Str(outside_md)>>),
              Arr(<<Str(progress_md), Num(1)>>) } }

AppendRequests ==
  { [tool |-> "append_memory_bank", arg |-> a] :
      a \in { Undefined,
              Arr(<<Obj(Str(decisionLog_md), Str(<<"C">>), Str(Decision))>>),
              Arr(<<Obj(Str(decisionLog_md), Str(<<"E">>), Str(Decision))>>),
              Arr(<<Obj(Str(progress_md), Str(<<"C">>), Str(Done))>>),
              Arr(<<Obj(Str(progress_md), Str(<<"C">>), Str(ProgressTitle))>>),
              Arr(<<Obj(Str(progress_md), Str(<<"C">>), Undefined)>>),
              Arr(<<Obj(Str(notes_md), Str(<<"C">>), Undefined),
                    Obj(Str(notes_md), Str(<<"E">>), Str(Done))>>),
              Arr(<<Obj(Str(notes_md), Undefined, Undefined),
                    Obj(Str(notes_md), Str(<<"C">>), Undefined)>>),
              Arr(<<Obj(Str(<<>>), Str(<<"C">>), Undefined),
                    Obj(Str(notes_md), Str(<<>>), Undefined)>>),
              Arr(<<Obj(Str(outside_md), Str(<<"C">>), Undefined)>>),
              Arr(<<Obj(Str(absolute_md), Str(<<"C">>), Str(Done))>>) } }

\* the requests one-at-a-time execution is explored with
Requests == ReadRequests \cup AppendRequests

\* the requests overlapping execution is explored with: two appends under
\* one header of one document, an append to a catalog document, a read
RacingRequests ==
  { [tool |-> "read_memory_bank", arg |-> Arr(<<Str(missing_md), Str(decisionLog_md)>>)],
    [tool |-> "append_memory_bank",
     arg |-> Arr(<<Obj(Str(decisionLog_md), Str(<<"C">>), Str(Decision))>>)],
    [tool |-> "append_memory_bank",
     arg |-> Arr(<<Obj(Str(decisionLog_md), Str(<<"E">>), Str(Decision))>>)],
    [tool |-> "append_memory_bank",
     arg |-> Arr(<<Obj(Str(progress_md), Str(<<"C">>), Undefined)>>)] }

\* the requests repeated appends are explored with: appends under one header
\* of one document, the header present from the start or added by the first
RepeatRequests ==
  { [tool |-> "append_memory_bank", arg |-> Arr(<<Obj(Str(f), Str(e), Str(h))>>)] :
      f \in {decisionLog_md}, e \in {<<"C">>, <<"E">>}, h \in {Decision, Done} }

Procs == 1..NProcs

\* the requests that carry arbitrary inputs; further requests repeat appends
Callers == {1, 2}

\* ------------------------------------------------------------ filesystem
VARIABLES
  rootExists,   \* whether the directory MEMORY_BANK_PATH exists
  files,        \* path -> text of every regular file that exists
  now,          \* the wall clock, in seconds
  pc,           \* per request: the await its handler is suspended at
  req,          \* per request: the tool called and its input
  loc,          \* per request: the locals of the running handler
  ret,          \* per request: what the handler returned or threw
  hist,         \* per request: what its handler has done so far
  faults        \* the fs calls that have failed for a reason outside the model

vars == <<rootExists, files, now, pc, req, loc, ret, hist, faults>>

\* the directories that exist
Dirs(root) == {<<"/">>, BASE_PATH} \cup (IF root THEN {MEMORY_BANK_PATH} ELSE {})

\* the error code an fs call on a file path fails with, "" if none;
\* needsFile says whether the call needs the file to exist
FsError(root, fs, path, needsFile) ==
  IF path \in Dirs(root) THEN "EISDIR"
  ELSE IF ParentDir(path) \notin Dirs(root) THEN "ENOENT"
  ELSE IF needsFile /\ path \notin DOMAIN fs THEN "ENOENT"
  ELSE ""

\* the file table after fs.writeFile(path, content)
WriteFile(fs, path, content) ==
  [q \in DOMAIN fs \cup {path} |-> IF q = path THEN content ELSE fs[q]]

\* a variant of AppendFile that replaces the text of the file
AppendFile_Truncate(fs, path, data) ==
  [q \in DOMAIN fs \cup {path} |-> IF q = path THEN data ELSE fs[q]]

\* the file table after fs.appendFile(path, data): creates a missing file
AppendFile(fs, path, data) ==
  [q \in DOMAIN fs \cup {path} |->
     IF q = path THEN (IF path \in DOMAIN fs THEN fs[path] ELSE <<>>) \o data
     ELSE fs[q]]

\* fs.readdir(MEMORY_BANK_PATH): the names of the entries of the root
Readdir(fs) ==
  { Slice(q, Len(MEMORY_BANK_PATH) + 1, Len(q)) :
      q \in {r \in DOMAIN fs : ParentDir(r) = MEMORY_BANK_PATH} }

\* an fs call that the state of the filesystem lets succeed (fsErr = "") may
\* still fail for a reason the model does not track (EIO, EACCES, ENOSPC)
Faults(fsErr) ==
  IF fsErr = "" /\ faults < MaxFaults THEN {"", "EIO"} ELSE {""}

\* the fs call settles with f
Injected(f) == faults' = IF f # "" THEN faults + 1 ELSE faults

EmptyFs == [q \in {} |-> <<>>]

NoRet == [state |-> "pending", isError |-> FALSE, shape |-> "none",
          listing |-> {}, read |-> <<>>, results |-> <<>>, message |-> ""]

InitLoc == [k |-> 1, i |-> 1, timestamp |-> <<>>, filePath |-> <<>>,
            fileContent |-> <<>>, results |-> <<>>, readResults |-> <<>>]

\* foundAbsent: fs.access(MEMORY_BANK_PATH) failed in this request;
\* mutated: this request created the root or created or changed a file
NoHist == [foundAbsent |-> FALSE, mutated |-> FALSE]

InRoot(name) == MEMORY_BANK_PATH \o <<"/">> \o name

\* the filesystems a request can meet: no root yet, an empty root, or a
\* root that holds documents
InitialFiles ==
  { EmptyFs,
    InRoot(decisionLog_md) :> ExampleBody,
    InRoot(decisionLog_md) :> SpacedBody,
    (InRoot(progress_md) :> InitialFilesLookup(progress_md))
       @@ (InRoot(readme_txt) :> <<"x">>) }

Init ==
  /\ rootExists \in BOOLEAN
  /\ files \in (IF rootExists THEN InitialFiles ELSE {EmptyFs})
  /\ now = 0
  /\ pc = [p \in Procs |-> "idle"]
  /\ req = [p \in Procs |-> [tool |-> "none", arg |-> Undefined]]
  /\ loc = [p \in Procs |-> InitLoc]
  /\ ret = [p \in Procs |-> NoRet]
  /\ hist = [p \in Procs |-> NoHist]
  /\ faults = 0

\* ------------------------------------------------------- handler helpers
\* { content: [...], isError: true } with a status:"error" payload
ErrorResult(msg) ==
  [state |-> "returned", isError |-> TRUE, shape |-> "error",
   listing |-> {}, read |-> <<>>, results |-> <<>>, message |-> msg]

\* the promise of the handler rejects with the fs error
Rejected(code) ==
  [state |-> "rejected", isError |-> TRUE, shape |-> "none",
   listing |-> {}, read |-> <<>>, results |-> <<>>, message |-> code]

\* results[fileName] = value on a plain object: an existing key keeps its
\* position, a new key goes last
ObjSet(o, key, value) ==
  IF \E j \in 1..Len(o) : o[j][1] = key
    THEN [j \in 1..Len(o) |-> IF o[j][1] = key THEN <<key, value>> ELSE o[j]]
    ELSE Append(o, <<key, value>>)

\* Array.isArray(fileNames) && fileNames.every(name => typeof name === 'string')
ValidFileNames(a) ==
  a.t = "array" /\ \A j \in 1..Len(a.v) : a.v[j].t = "string"

\* Array.isArray(entries) && entries.every(e => typeof e === 'object' && e !== null
\*   && typeof e.file_name === 'string' && typeof e.entry === 'string')
ValidEntries(a) ==
  a.t = "array" /\ \A j \in 1..Len(a.v) :
     /\ a.v[j].t = "object"
     /\ file_name(a.v[j]).t = "string"
     /\ entry_of(a.v[j]).t = "string"

\* sectionHeader && typeof sectionHeader === 'string'
HasSectionHeader(e) == section_header(e).t = "string" /\ ~Falsy(section_header(e))

\* `\n[${timestamp}] - ${entry}\n`
FormattedEntry(timestamp, entry) == <<"\n","[">> \o timestamp \o <<"]"," ","-"," ">> \o entry \o <<"\n">>

\* a variant of UpdatedContent that puts the entry at the end of the body
UpdatedContent_AtEnd(fileContent, sectionHeader, formattedEntry) ==
  TrimEnd(fileContent) \o <<"\n">> \o TrimStart(formattedEntry)

\* a variant of UpdatedContent that also trims the front of what follows the
\* entry
UpdatedContent_TrimRest(fileContent, sectionHeader, formattedEntry) ==
  LET headerIndex == IndexOf(fileContent, sectionHeader, 0)
      nextHeaderIndex == IndexOf(fileContent, <<"\n","#","#">>, headerIndex + Len(sectionHeader))
      insertIndex == IF nextHeaderIndex # -1 THEN nextHeaderIndex ELSE Len(fileContent)
  IN TrimEnd(Slice(fileContent, 0, insertIndex)) \o <<"\n">> \o TrimStart(formattedEntry)
       \o TrimStart(Slice(fileContent, insertIndex, Len(fileContent)))

\* a variant of UpdatedContent that puts the entry right after the header
UpdatedContent_AfterHeader(fileContent, sectionHeader, formattedEntry) ==
  LET headerIndex == IndexOf(fileContent, sectionHeader, 0)
      insertIndex == headerIndex + Len(sectionHeader)
  IN Slice(fileContent, 0, insertIndex) \o <<"\n">> \o TrimStart(formattedEntry)
       \o Slice(fileContent, insertIndex, Len(fileContent))

\* the splice of the section branch, for a body that contains the header
UpdatedContent(fileContent, sectionHeader, formattedEntry) ==
  LET headerIndex == IndexOf(fileContent, sectionHeader, 0)
      nextHeaderIndex == IndexOf(fileContent, <<"\n","#","#">>, headerIndex + Len(sectionHeader))
      insertIndex == IF nextHeaderIndex # -1 THEN nextHeaderIndex ELSE Len(fileContent)
  IN TrimEnd(Slice(fileContent, 0, insertIndex)) \o <<"\n">> \o TrimStart(formattedEntry)
       \o Slice(fileContent, insertIndex, Len(fileContent))

\* a variant of HeaderAndEntry that trims the entry as the splice does
HeaderAndEntry_Trimmed(sectionHeader, formattedEntry) ==
  <<"\n">> \o sectionHeader \o <<"\n">> \o TrimStart(formattedEntry)

\* what appendFile receives when the header is not in the body
HeaderAndEntry(sectionHeader, formattedEntry) ==
  <<"\n">> \o sectionHeader \o <<"\n">> \o formattedEntry

\* the body the section branch starts from when readFile fails with ENOENT
SeedContent(fileName, timestamp) ==
  IF InitialFilesLookup(fileName) # <<>>
    THEN Replace(InitialFilesLookup(fileName), TIMESTAMP_PLACEHOLDER, timestamp)
    ELSE <<>>

Entries(p) == req[p].arg.v
CurEntry(p) == Entries(p)[loc[p].i]
CurFileName(p) == file_name(CurEntry(p)).v
CurHeader(p) == section_header(CurEntry(p)).v
CurFormatted(p) == FormattedEntry(loc[p].timestamp, entry_of(CurEntry(p)).v)

SuccessItem(fileName) ==
  [file |-> fileName, status |-> "success", message |-> "Appended entry to"]
ErrorItem(fileName, code) ==
  [file |-> fileName, status |-> "error", message |-> code]

\* the handler returns r: its locals are gone
Return(p, r) ==
  /\ pc' = [pc EXCEPT ![p] = "done"]
  /\ loc' = [loc EXCEPT ![p] = InitLoc]
  /\ ret' = [ret EXCEPT ![p] = r]

\* the handler's promise rejects with an fs error
Reject(p, code) ==
  /\ pc' = [pc EXCEPT ![p] = "rejected"]
  /\ loc' = [loc EXCEPT ![p] = InitLoc]
  /\ ret' = [ret EXCEPT ![p] = Rejected(code)]

\* the top of the for loop over entries, reached with the results so far:
\* either the handler returns, or the next entry's path, timestamp and
\* formatted entry are taken and its first fs call is issued; the clock
\* may have advanced since it was last read
AppendLoop(p, results, i) ==
  IF i > Len(Entries(p))
    THEN /\ Return(p, [NoRet EXCEPT !.state = "returned", !.shape = "append",
                                    !.results = results])
         /\ now' = now
    ELSE \E t \in now..MaxClock :
         /\ now' = t
         /\ pc' = [pc EXCEPT ![p] = IF HasSectionHeader(Entries(p)[i])
                                      THEN "app_read" ELSE "app_append"]
         /\ loc' = [loc EXCEPT ![p] =
                      [@ EXCEPT !.results = results, !.i = i,
                                !.filePath = PathJoin(MEMORY_BANK_PATH,
                                                      file_name(Entries(p)[i]).v),
                                !.timestamp = getCurrentTimestamp(t)]]
         /\ UNCHANGED ret

\* the top of the for loop over file names of readMemoryBank
ReadLoop(p, readResults, i) ==
  IF i > Len(req[p].arg.v)
    THEN Return(p, [NoRet EXCEPT !.state = "returned", !.shape = "read",
                                 !.read = readResults])
    ELSE /\ pc' = [pc EXCEPT ![p] = "read_file"]
         /\ loc' = [loc EXCEPT ![p] =
                      [@ EXCEPT !.readResults = readResults, !.i = i,
                                !.filePath = PathJoin(MEMORY_BANK_PATH,
                                                      req[p].arg.v[i].v)]]
         /\ UNCHANGED ret

\* a variant of InitLoop that leaves the loop one document early
InitLoop_OffByOne(p, k) ==
  IF k >= Len(INITIAL_FILES)
    THEN /\ pc' = [pc EXCEPT ![p] = "initialized"]
         /\ loc' = [loc EXCEPT ![p] = InitLoc]
    ELSE /\ pc' = [pc EXCEPT ![p] = "init_file_access"]
         /\ loc' = [loc EXCEPT ![p] =
                      [@ EXCEPT !.k = k,
                                !.filePath = PathJoin(MEMORY_BANK_PATH,
                                                      INITIAL_FILES[k][1])]]

\* the top of the for loop over INITIAL_FILES of _ensureInitialized
InitLoop(p, k) ==
  IF k > Len(INITIAL_FILES)
    THEN /\ pc' = [pc EXCEPT ![p] = "initialized"]
         /\ loc' = [loc EXCEPT ![p] = InitLoc]
    ELSE /\ pc' = [pc EXCEPT ![p] = "init_file_access"]
         /\ loc' = [loc EXCEPT ![p] =
                      [@ EXCEPT !.k = k,
                                !.filePath = PathJoin(MEMORY_BANK_PATH,
                                                      INITIAL_FILES[k][1])]]

Mutated(p) == [hist EXCEPT ![p].mutated = TRUE]

\* ------------------------------------------------------------- actions
\* a request arrives: its handler runs up to `await fs.access(MEMORY_BANK_PATH)`
Arrive(p, menu) ==
  /\ pc[p] = "idle"
  /\ IF p = 1 THEN TRUE ELSE pc[p - 1] # "idle"
  /\ \E r \in menu : req' = [req EXCEPT ![p] = r]
  /\ pc' = [pc EXCEPT ![p] = "init_access"]
  /\ UNCHANGED <<rootExists, files, now, loc, ret, hist, faults>>

\* a variant of InitAccess that goes through the catalog also when the
\* directory exists
InitAccess_Backfill(p) ==
  /\ pc[p] = "init_access"
  /\ IF rootExists
       THEN /\ pc' = [pc EXCEPT ![p] = "init_file_access"]
            /\ loc' = [loc EXCEPT ![p] =
                         [@ EXCEPT !.k = 1,
                                   !.filePath = PathJoin(MEMORY_BANK_PATH,
                                                         INITIAL_FILES[1][1])]]
            /\ UNCHANGED hist
       ELSE /\ pc' = [pc EXCEPT ![p] = "init_mkdir"]
            /\ hist' = [hist EXCEPT ![p].foundAbsent = TRUE]
            /\ UNCHANGED loc
  /\ UNCHANGED <<rootExists, files, now, req, ret, faults>>

\* fs.access(MEMORY_BANK_PATH) settles: _ensureInitialized returns when the
\* directory exists, else it issues mkdir
InitAccess(p) ==
  /\ pc[p] = "init_access"
  /\ IF rootExists
       THEN /\ pc' = [pc EXCEPT ![p] = "initialized"]
            /\ UNCHANGED hist
       ELSE /\ pc' = [pc EXCEPT ![p] = "init_mkdir"]
            /\ hist' = [hist EXCEPT ![p].foundAbsent = TRUE]
  /\ UNCHANGED <<rootExists, files, now, req, loc, ret, faults>>

\* a variant of InitMkdir without { recursive: true }: it fails with EEXIST
\* when the directory exists by now
InitMkdir_Exclusive(p) ==
  /\ pc[p] = "init_mkdir"
  /\ LET fsErr == IF rootExists THEN "EEXIST" ELSE ""
     IN \E f \in Faults(fsErr) :
          /\ Injected(f)
          /\ IF fsErr # "" \/ f # ""
               THEN /\ Reject(p, IF fsErr # "" THEN fsErr ELSE f)
                    /\ UNCHANGED <<rootExists, hist>>
               ELSE /\ rootExists' = TRUE
                    /\ hist' = Mutated(p)
                    /\ InitLoop(p, 1)
                    /\ UNCHANGED ret
  /\ UNCHANGED <<files, now, req>>

\* fs.mkdir(MEMORY_BANK_PATH, { recursive: true }) settles: it succeeds
\* also when the directory exists by now; a failure is not caught and
\* rejects the handler
InitMkdir(p) ==
  /\ pc[p] = "init_mkdir"
  /\ \E f \in Faults("") :
       /\ Injected(f)
       /\ IF f # ""
            THEN /\ Reject(p, f)
                 /\ UNCHANGED <<rootExists, hist>>
            ELSE /\ rootExists' = TRUE
                 /\ hist' = IF rootExists THEN hist ELSE Mutated(p)
                 /\ InitLoop(p, 1)
                 /\ UNCHANGED ret
  /\ UNCHANGED <<files, now, req>>

\* fs.access(filePath) of a catalog document settles: an existing document
\* is skipped, for a missing one the template is rendered and writeFile issued
InitFileAccess(p) ==
  /\ pc[p] = "init_file_access"
  /\ IF loc[p].filePath \in DOMAIN files
       THEN /\ InitLoop(p, loc[p].k + 1)
            /\ now' = now
       ELSE \E t \in now..MaxClock :
            /\ now' = t
            /\ pc' = [pc EXCEPT ![p] = "init_write"]
            /\ loc' = [loc EXCEPT ![p].fileContent =
                         Replace(INITIAL_FILES[loc[p].k][2], TIMESTAMP_PLACEHOLDER,
                                 getCurrentTimestamp(t))]
  /\ UNCHANGED <<rootExists, files, req, ret, hist, faults>>

\* fs.writeFile(filePath, content) of a catalog template settles; a failure
\* is not caught and rejects the handler
InitWriteFile(p) ==
  /\ pc[p] = "init_write"
  /\ LET fsErr == FsError(rootExists, files, loc[p].filePath, FALSE)
     IN \E f \in Faults(fsErr) :
          LET err == IF fsErr # "" THEN fsErr ELSE f
          IN /\ Injected(f)
             /\ IF err # ""
                  THEN /\ Reject(p, err)
                       /\ UNCHANGED <<files, hist>>
                  ELSE /\ files' = WriteFile(files, loc[p].filePath, loc[p].fileContent)
                       /\ hist' = Mutated(p)
                       /\ InitLoop(p, loc[p].k + 1)
                       /\ UNCHANGED ret
  /\ UNCHANGED <<rootExists, now, req>>

\* readMemoryBank after `await this._ensureInitialized()`, up to its next await
ReadBody(p) ==
  /\ pc[p] = "initialized"
  /\ req[p].tool = "read_memory_bank"
  /\ IF Falsy(req[p].arg) \/ LengthIsZero(req[p].arg)
       THEN /\ pc' = [pc EXCEPT ![p] = "readdir"]
            /\ UNCHANGED <<loc, ret>>
       ELSE IF ~ValidFileNames(req[p].arg)
         THEN Return(p, ErrorResult("Invalid 'file_names' parameter"))
         ELSE ReadLoop(p, <<>>, 1)
  /\ UNCHANGED <<rootExists, files, now, req, hist, faults>>

\* a variant of ReadDir that returns every name readdir gives
ReadDir_Unfiltered(p) ==
  /\ pc[p] = "readdir"
  /\ LET fsErr == IF ~rootExists THEN "ENOENT" ELSE ""
     IN \E f \in Faults(fsErr) :
          /\ Injected(f)
          /\ IF fsErr # "" \/ f # ""
               THEN Return(p, ErrorResult("Failed to list files"))
               ELSE Return(p, [NoRet EXCEPT !.state = "returned", !.shape = "list",
                                 !.listing = Readdir(files)])
  /\ UNCHANGED <<rootExists, files, now, req, hist>>

\* fs.readdir(MEMORY_BANK_PATH) settles
ReadDir(p) ==
  /\ pc[p] = "readdir"
  /\ LET fsErr == IF ~rootExists THEN "ENOENT" ELSE ""
     IN \E f \in Faults(fsErr) :
          /\ Injected(f)
          /\ IF fsErr # "" \/ f # ""
               THEN Return(p, ErrorResult("Failed to list files"))
               ELSE Return(p, [NoRet EXCEPT !.state = "returned", !.shape = "list",
                                 !.listing = {n \in Readdir(files) : EndsWith(n, <<".","m","d">>)}])
  /\ UNCHANGED <<rootExists, files, now, req, hist>>

\* a variant of ReadFile that gives up the call at the first file it cannot read
ReadFile_Abort(p) ==
  /\ pc[p] = "read_file"
  /\ LET fsErr == FsError(rootExists, files, loc[p].filePath, TRUE)
     IN \E f \in Faults(fsErr) :
          /\ Injected(f)
          /\ IF fsErr # "" \/ f # ""
               THEN Return(p, ErrorResult("Failed to read file"))
               ELSE ReadLoop(p, ObjSet(loc[p].readResults, req[p].arg.v[loc[p].i].v,
                                       Str(files[loc[p].filePath])),
                             loc[p].i + 1)
  /\ UNCHANGED <<rootExists, files, now, req, hist, faults>>

\* fs.readFile(filePath, 'utf-8') of readMemoryBank settles
ReadFile(p) ==
  /\ pc[p] = "read_file"
  /\ LET fsErr == FsError(rootExists, files, loc[p].filePath, TRUE)
     IN \E f \in Faults(fsErr) :
          /\ Injected(f)
          /\ ReadLoop(p, ObjSet(loc[p].readResults, req[p].arg.v[loc[p].i].v,
                                IF fsErr # "" \/ f # "" THEN Null
                                ELSE Str(files[loc[p].filePath])),
                      loc[p].i + 1)
  /\ UNCHANGED <<rootExists, files, now, req, hist>>

\* appendMemoryBank after `await this._ensureInitialized()`, up to its next await
AppendBody(p) ==
  /\ pc[p] = "initialized"
  /\ req[p].tool = "append_memory_bank"
  /\ IF ~ValidEntries(req[p].arg)
       THEN /\ Return(p, ErrorResult("Invalid 'entries' parameter"))
            /\ now' = now
       ELSE AppendLoop(p, <<>>, 1)
  /\ UNCHANGED <<rootExists, files, req, hist, faults>>

\* a variant of AppendReadFile that looks for the header from the second
\* character of the body on
AppendReadFile_FromOne(p) ==
  /\ pc[p] = "app_read"
  /\ LET fsErr == FsError(rootExists, files, loc[p].filePath, TRUE)
     IN \E f \in Faults(fsErr) :
          LET err == IF fsErr # "" THEN fsErr ELSE f
              fileContent == IF err = "" THEN files[loc[p].filePath]
                             ELSE SeedContent(CurFileName(p), loc[p].timestamp)
              headerIndex == IndexOf(fileContent, CurHeader(p), 1)
          IN /\ Injected(f)
             /\ IF err \notin {"", "ENOENT"}
                  THEN AppendLoop(p, Append(loc[p].results,
                                            ErrorItem(CurFileName(p), err)),
                                  loc[p].i + 1)
                  ELSE /\ pc' = [pc EXCEPT ![p] = IF headerIndex # -1 THEN "app_write"
                                                   ELSE "app_append_hdr"]
                       /\ loc' = [loc EXCEPT ![p].fileContent = fileContent]
                       /\ UNCHANGED <<ret, now>>
  /\ UNCHANGED <<rootExists, files, req, hist>>

\* fs.readFile(filePath, 'utf-8') of the section branch settles; the code
\* after it runs up to the writeFile or appendFile it issues
AppendReadFile(p) ==
  /\ pc[p] = "app_read"
  /\ LET fsErr == FsError(rootExists, files, loc[p].filePath, TRUE)
     IN \E f \in Faults(fsErr) :
          LET err == IF fsErr # "" THEN fsErr ELSE f
              fileContent == IF err = "" THEN files[loc[p].filePath]
                             ELSE SeedContent(CurFileName(p), loc[p].timestamp)
              headerIndex == IndexOf(fileContent, CurHeader(p), 0)
          IN /\ Injected(f)
             /\ IF err \notin {"", "ENOENT"}
                  THEN AppendLoop(p, Append(loc[p].results,
                                            ErrorItem(CurFileName(p), err)),
                                  loc[p].i + 1)
                  ELSE /\ pc' = [pc EXCEPT ![p] = IF headerIndex # -1 THEN "app_write"
                                                   ELSE "app_append_hdr"]
                       /\ loc' = [loc EXCEPT ![p].fileContent = fileContent]
                       /\ UNCHANGED <<ret, now>>
  /\ UNCHANGED <<rootExists, files, req, hist>>

\* a variant of AppendSettle whose catch block leaves the loop
AppendSettle_Abort(p, err, written) ==
  IF err # ""
    THEN /\ Return(p, [NoRet EXCEPT !.state = "returned", !.shape = "append",
                                    !.results = Append(loc[p].results,
                                                       ErrorItem(CurFileName(p), err))])
         /\ now' = now
         /\ UNCHANGED <<files, hist>>
    ELSE /\ files' = written
         /\ hist' = Mutated(p)
         /\ AppendLoop(p, Append(loc[p].results, SuccessItem(CurFileName(p))),
                       loc[p].i + 1)

\* an fs call of the for loop over entries settles with err: the catch block
\* or the success push, then the next iteration
AppendSettle(p, err, written) ==
  IF err # ""
    THEN /\ AppendLoop(p, Append(loc[p].results, ErrorItem(CurFileName(p), err)),
                       loc[p].i + 1)
         /\ UNCHANGED <<files, hist>>
    ELSE /\ files' = written
         /\ hist' = Mutated(p)
         /\ AppendLoop(p, Append(loc[p].results, SuccessItem(CurFileName(p))),
                       loc[p].i + 1)

\* a variant of AppendWriteFile that splices into the text the file holds
\* when the write is made
AppendWriteFile_Reread(p) ==
  /\ pc[p] = "app_write"
  /\ LET fsErr == FsError(rootExists, files, loc[p].filePath, FALSE)
         body == IF loc[p].filePath \in DOMAIN files THEN files[loc[p].filePath]
                 ELSE loc[p].fileContent
     IN \E f \in Faults(fsErr) :
          /\ Injected(f)
          /\ AppendSettle(p, IF fsErr # "" THEN fsErr ELSE f,
                          WriteFile(files, loc[p].filePath,
                                    UpdatedContent(body, CurHeader(p), CurFormatted(p))))
  /\ UNCHANGED <<rootExists, req>>

\* fs.writeFile(filePath, updatedContent) settles
AppendWriteFile(p) ==
  /\ pc[p] = "app_write"
  /\ LET fsErr == FsError(rootExists, files, loc[p].filePath, FALSE)
     IN \E f \in Faults(fsErr) :
          /\ Injected(f)
          /\ AppendSettle(p, IF fsErr # "" THEN fsErr ELSE f,
                          WriteFile(files, loc[p].filePath,
                                    UpdatedContent(loc[p].fileContent, CurHeader(p),
                                                   CurFormatted(p))))
  /\ UNCHANGED <<rootExists, req>>

\* fs.appendFile(filePath, `\n${sectionHeader}\n${formattedEntry}`) settles
AppendFileHeader(p) ==
  /\ pc[p] = "app_append_hdr"
  /\ LET fsErr == FsError(rootExists, files, loc[p].filePath, FALSE)
     IN \E f \in Faults(fsErr) :
          /\ Injected(f)
          /\ AppendSettle(p, IF fsErr # "" THEN fsErr ELSE f,
                          AppendFile(files, loc[p].filePath,
                                     HeaderAndEntry(CurHeader(p), CurFormatted(p))))
  /\ UNCHANGED <<rootExists, req>>

\* fs.appendFile(filePath, formattedEntry) of the branch without a header settles
AppendFilePlain(p) ==
  /\ pc[p] = "app_append"
  /\ LET fsErr == FsError(rootExists, files, loc[p].filePath, FALSE)
     IN \E f \in Faults(fsErr) :
          /\ Injected(f)
          /\ AppendSettle(p, IF fsErr # "" THEN fsErr ELSE f,
                          AppendFile(files, loc[p].filePath, CurFormatted(p)))
  /\ UNCHANGED <<rootExists, req>>

Settled(p) == pc[p] \in {"idle", "done", "rejected"}

\* a request arrives while other handlers may be suspended at an await
Call(p) ==
  /\ p \in Callers
  /\ Arrive(p, RacingRequests)

\* a request arrives while no other handler is running
CallSeq(p) ==
  /\ p \in Callers
  /\ \A q \in Procs : Settled(q)
  /\ Arrive(p, Requests)

\* one more append of a run of appends arrives while no handler is running
CallRepeat(p) ==
  /\ \A q \in Procs : Settled(q)
  /\ Arrive(p, RepeatRequests)

\* requests are handled as they arrive: handlers interleave at their awaits
Next ==
  \/ \E p \in Procs : Call(p)
  \/ \E p \in Procs : InitAccess(p)
  \/ \E p \in Procs : InitMkdir(p)
  \/ \E p \in Procs : InitFileAccess(p)
  \/ \E p \in Procs : InitWriteFile(p)
  \/ \E p \in Procs : ReadBody(p)
  \/ \E p \in Procs : ReadFile(p)
  \/ \E p \in Procs : AppendBody(p)
  \/ \E p \in Procs : AppendReadFile(p)
  \/ \E p \in Procs : AppendWriteFile(p)
  \/ \E p \in Procs : AppendFileHeader(p)
  \/ \E p \in Procs : AppendFilePlain(p)

Spec == Init /\ [][Next]_vars

\* one request at a time
NextSeq ==
  \/ \E p \in Procs : CallSeq(p)
  \/ \E p \in Procs : InitAccess(p)
  \/ \E p \in Procs : InitMkdir(p)
  \/ \E p \in Procs : InitFileAccess(p)
  \/ \E p \in Procs : InitWriteFile(p)
  \/ \E p \in Procs : ReadBody(p)
  \/ \E p \in Procs : ReadDir(p)
  \/ \E p \in Procs : ReadFile(p)
  \/ \E p \in Procs : AppendBody(p)
  \/ \E p \in Procs : AppendReadFile(p)
  \/ \E p \in Procs : AppendWriteFile(p)
  \/ \E p \in Procs : AppendFileHeader(p)
  \/ \E p \in Procs : AppendFilePlain(p)

SpecSeq == Init /\ [][NextSeq]_vars

\* a run of appends, one at a time
NextRepeat ==
  \/ \E p \in Procs : CallRepeat(p)
  \/ \E p \in Procs : InitAccess(p)
  \/ \E p \in Procs : InitMkdir(p)
  \/ \E p \in Procs : InitFileAccess(p)
  \/ \E p \in Procs : InitWriteFile(p)
  \/ \E p \in Procs : AppendBody(p)
  \/ \E p \in Procs : AppendReadFile(p)
  \/ \E p \in Procs : AppendWriteFile(p)
  \/ \E p \in Procs : AppendFileHeader(p)

SpecRepeat == Init /\ [][NextRepeat]_vars

TypeOK ==
  /\ rootExists \in BOOLEAN
  /\ now \in 0..MaxClock
  /\ \A p \in Procs : pc[p] \in {"idle", "init_access", "init_mkdir", "init_file_access",
                                 "init_write", "initialized", "readdir", "read_file",
                                 "app_read", "app_write", "app_append_hdr", "app_append",
                                 "done", "rejected"}

\* ------------------------------------------------------------ properties
\* the step settles the fs call request p is suspended at (at label) and
\* pushes a success result for the entry
Succeeds(p, label) ==
  /\ pc[p] = label
  /\ LET rs == IF pc'[p] = "done" THEN ret'[p].results ELSE loc'[p].results
     IN /\ Len(rs) = Len(loc[p].results) + 1
        /\ rs[Len(rs)].status = "success"

\* the entry line as it stands in a document: the formatted entry without
\* its leading newline
EntryLine(p) == TrimStart(CurFormatted(p))

\* the end of an entry line with text e, whatever its timestamp
Mark(e) == <<"]"," ","-"," ">> \o e \o <<"\n">>

\* n is body b with line put at the end of the section of header h: line is
\* followed at once by the next "\n##" after the header and what follows it
\* (or by the end of the document), and no "\n##" stands between the header
\* and the line
InsertedInSection(b, h, line, n) ==
  LET hi == IndexOf(b, h, 0)
      nx == IndexOf(b, <<"\n","#","#">>, hi + Len(h))
      rest == IF nx = -1 THEN <<>> ELSE Slice(b, nx, Len(b))
      head == Slice(n, 0, Len(n) - Len(line) - Len(rest))
  IN /\ EndsWith(n, line \o rest)
     /\ Contains(head, h)
     /\ IndexOf(head, <<"\n","#","#">>, IndexOf(head, h, 0) + Len(h)) = -1

IsExample(p) ==
  /\ loc[p].fileContent = ExampleBody
  /\ CurHeader(p) = Decision
  /\ entry_of(CurEntry(p)).v = <<"C">>

\* C1 as stated: an append under a header that is in the body puts the entry
\* line right before the next "\n##" after the header (or at the end), never
\* under another header, and for the example body the document then contains
\* "## Decision\nA\n[ts] - C\n## Progress\nB"
C1_Original ==
  [][\A p \in Procs : Succeeds(p, "app_write") =>
       LET n == files'[loc[p].filePath]
       IN /\ InsertedInSection(loc[p].fileContent, CurHeader(p), EntryLine(p), n)
          /\ IsExample(p) =>
               Contains(n, <<"#","#"," ","D","e","c","i","s","i","o","n","\n","A","\n","[">> \o loc[p].timestamp
                             \o <<"]"," ","-"," ","C","\n","#","#"," ","P","r","o","g","r","e","s","s","\n","B">>)]_vars

\* C1 amended: as C1, but the entry line keeps its own newline in front of
\* the "\n##" it is put before, so for the example body the document
\* contains "## Decision\nA\n[ts] - C\n\n## Progress\nB"
C1_SectionInsert ==
  [][\A p \in Procs : Succeeds(p, "app_write") =>
       LET n == files'[loc[p].filePath]
       IN /\ InsertedInSection(loc[p].fileContent, CurHeader(p), EntryLine(p), n)
          /\ IsExample(p) =>
               Contains(n, <<"#","#"," ","D","e","c","i","s","i","o","n","\n","A","\n","[">> \o loc[p].timestamp
                             \o <<"]"," ","-"," ","C","\n","\n","#","#"," ","P","r","o","g","r","e","s","s","\n","B">>)]_vars

C1_Witness ==
  \E p \in Procs : \E t \in 0..MaxClock :
    /\ pc[p] = "done"
    /\ ret[p].results = <<SuccessItem(decisionLog_md)>>
    /\ InRoot(decisionLog_md) \in DOMAIN files
    /\ files[InRoot(decisionLog_md)] =
         <<"#","#"," ","D","e","c","i","s","i","o","n","\n","A","\n","[">> \o getCurrentTimestamp(t) \o <<"]"," ","-"," ","C","\n","\n","#","#"," ","P","r","o","g","r","e","s","s","\n","B">>

\* C2: the writeFile of a section append stores a splice of the body the
\* request read earlier: an entry that another request has put into the
\* file since, and that the body read does not hold, is gone after the write
C2_StaleRewrite ==
  [][\A p \in Procs : Succeeds(p, "app_write") =>
       \A e \in {<<"C">>, <<"E">>} :
          ( /\ loc[p].filePath \in DOMAIN files
            /\ Contains(files[loc[p].filePath], Mark(e))
            /\ ~Contains(loc[p].fileContent, Mark(e))
            /\ entry_of(CurEntry(p)).v # e )
          => ~Contains(files'[loc[p].filePath], Mark(e))]_vars

\* both appends under "## Decision" of decisionLog.md report success and the
\* document holds one of the two entries only
C2_Witness ==
  \E p, q \in Procs :
    /\ p # q
    /\ pc[p] = "done" /\ pc[q] = "done"
    /\ req[p].arg = Arr(<<Obj(Str(decisionLog_md), Str(<<"C">>), Str(Decision))>>)
    /\ req[q].arg = Arr(<<Obj(Str(decisionLog_md), Str(<<"E">>), Str(Decision))>>)
    /\ ret[p].results = <<SuccessItem(decisionLog_md)>>
    /\ ret[q].results = <<SuccessItem(decisionLog_md)>>
    /\ InRoot(decisionLog_md) \in DOMAIN files
    /\ Contains(files[InRoot(decisionLog_md)], Decision)
    /\ Contains(files[InRoot(decisionLog_md)], Mark(<<"C">>))
         # Contains(files[InRoot(decisionLog_md)], Mark(<<"E">>))

\* typeof e === 'object' && typeof e.file_name === 'string' && typeof e.entry === 'string'
ValidEntry(e) ==
  e.t = "object" /\ file_name(e).t = "string" /\ entry_of(e).t = "string"

\* an append of two targets, the first without `entry`, the second valid
MixedBatch(r) ==
  /\ r.tool = "append_memory_bank"
  /\ r.arg.t = "array"
  /\ Len(r.arg.v) = 2
  /\ r.arg.v[1].t = "object" /\ entry_of(r.arg.v[1]).t = "undefined"
  /\ ValidEntry(r.arg.v[2])

\* C3 as stated: a batch of an invalid and a valid target returns one failure
\* and one success and the valid target's entry is written
C3_Original ==
  \A p \in Procs : (pc[p] = "done" /\ MixedBatch(req[p])) =>
    LET path == PathJoin(MEMORY_BANK_PATH, file_name(req[p].arg.v[2]).v)
    IN /\ ret[p].shape = "append"
       /\ Len(ret[p].results) = 2
       /\ ret[p].results[1].status = "error"
       /\ ret[p].results[2].status = "success"
       /\ path \in DOMAIN files
       /\ Contains(files[path], Mark(entry_of(req[p].arg.v[2]).v))

\* a read with file names that are not all strings, or an append whose
\* entries are not an array of well-formed targets
Malformed(r) ==
  \/ /\ r.tool = "read_memory_bank"
     /\ ~Falsy(r.arg) /\ ~LengthIsZero(r.arg)
     /\ ~ValidFileNames(r.arg)
  \/ /\ r.tool = "append_memory_bank"
     /\ ~ValidEntries(r.arg)

\* C4 as stated: a malformed request returns a validation error and its
\* handler has created or changed nothing in the filesystem
C4_Original ==
  \A p \in Procs : (pc[p] = "done" /\ Malformed(req[p])) =>
    /\ ret[p].shape = "error"
    /\ ~hist[p].mutated

CatalogPath(k) == PathJoin(MEMORY_BANK_PATH, INITIAL_FILES[k][1])

\* C5: a request whose _ensureInitialized found the root directory has, when
\* _ensureInitialized returns, created or changed nothing and met no error
C5_NoBackfill ==
  \A p \in Procs : (pc[p] = "initialized" /\ ~hist[p].foundAbsent) =>
    /\ ~hist[p].mutated
    /\ ret[p].state = "pending"

\* _ensureInitialized has returned for a root that existed, with a catalog
\* document missing
C5_Witness ==
  \E p \in Procs :
    /\ pc[p] = "initialized"
    /\ ~hist[p].foundAbsent
    /\ rootExists
    /\ \E k \in 1..Len(INITIAL_FILES) : CatalogPath(k) \notin DOMAIN files

\* the first line of a template
Heading(template) == Slice(template, 0, IndexOf(template, <<"\n">>, 0))

\* C6: when a request that found the root directory absent has returned, the
\* root exists and each catalog document exists and starts with its heading
C6_CatalogCreated ==
  \A p \in Procs : (pc[p] = "done" /\ hist[p].foundAbsent) =>
    /\ rootExists
    /\ \A k \in 1..Len(INITIAL_FILES) :
         /\ CatalogPath(k) \in DOMAIN files
         /\ StartsWith(files[CatalogPath(k)], Heading(INITIAL_FILES[k][2]))

C6_Witness ==
  \E p \in Procs :
    /\ pc[p] = "done"
    /\ hist[p].foundAbsent
    /\ \A q \in Procs \ {p} : pc[q] = "idle"
    /\ \A k \in 1..Len(INITIAL_FILES) : CatalogPath(k) \in DOMAIN files

\* C7: an append without a header makes an existing document longer by the
\* length of the formatted entry and keeps its text as a prefix; a document
\* that did not exist becomes the formatted entry, template or not
C7_PlainAppend ==
  [][\A p \in Procs : Succeeds(p, "app_append") =>
       LET path == loc[p].filePath
       IN IF path \in DOMAIN files
            THEN /\ Len(files'[path]) = Len(files[path]) + Len(CurFormatted(p))
                 /\ StartsWith(files'[path], files[path])
            ELSE files'[path] = CurFormatted(p)]_vars

\* progress.md, a catalog document, was created by an append without header
C7_Witness ==
  \E p \in Procs : \E t \in 0..MaxClock :
    /\ pc[p] = "done"
    /\ ret[p].results = <<SuccessItem(progress_md)>>
    /\ InRoot(progress_md) \in DOMAIN files
    /\ files[InRoot(progress_md)] = FormattedEntry(getCurrentTimestamp(t), <<"C">>)

PriorText(path) == IF path \in DOMAIN files THEN files[path] ELSE <<>>

\* C8 as stated: an append under a header that is not in the body adds
\* exactly "\n<header>\n[ts] - <entry>\n" at the end of the document
C8_Original ==
  [][\A p \in Procs : Succeeds(p, "app_append_hdr") =>
       files'[loc[p].filePath] =
         PriorText(loc[p].filePath) \o <<"\n">> \o CurHeader(p) \o <<"\n","[">>
           \o loc[p].timestamp \o <<"]"," ","-"," ">> \o entry_of(CurEntry(p)).v \o <<"\n">>]_vars

\* C8 amended: an append under a header that is not in the body adds exactly
\* "\n<header>\n\n[ts] - <entry>\n" at the end of the document (the formatted
\* entry keeps its leading newline), the prior text staying as a prefix
C8_HeaderFallback ==
  [][\A p \in Procs : Succeeds(p, "app_append_hdr") =>
       files'[loc[p].filePath] =
         PriorText(loc[p].filePath) \o <<"\n">> \o CurHeader(p) \o <<"\n","\n","[">>
           \o loc[p].timestamp \o <<"]"," ","-"," ">> \o entry_of(CurEntry(p)).v \o <<"\n">>]_vars

\* progress.md holds its template followed by the new header and the entry
C8_Witness ==
  \E p \in Procs : \E t \in 0..MaxClock :
    /\ pc[p] = "done"
    /\ ret[p].results = <<SuccessItem(progress_md)>>
    /\ InRoot(progress_md) \in DOMAIN files
    /\ files[InRoot(progress_md)] =
         InitialFilesLookup(progress_md) \o <<"\n","#","#"," ","D","o","n","e","\n","\n","[">>
           \o getCurrentTimestamp(t) \o <<"]"," ","-"," ","C","\n">>

\* C9 as stated: a section append to a catalog document that does not exist
\* writes a document that starts with the template of that file name,
\* whether the header is in the template or not
C9_Original ==
  [][\A p \in Procs :
       ( /\ Succeeds(p, "app_write") \/ Succeeds(p, "app_append_hdr")
         /\ loc[p].filePath \notin DOMAIN files
         /\ InitialFilesLookup(CurFileName(p)) # <<>> )
       => StartsWith(files'[loc[p].filePath],
                     SeedContent(CurFileName(p), loc[p].timestamp))]_vars

\* C10 as stated: every path a read or an append is about to use, and every
\* file that exists, lies inside the root directory
C10_Original ==
  /\ \A p \in Procs :
       pc[p] \in {"read_file", "app_read", "app_write", "app_append_hdr", "app_append"}
         => StartsWith(loc[p].filePath, MEMORY_BANK_PATH \o <<"/">>)
  /\ \A path \in DOMAIN files : StartsWith(path, MEMORY_BANK_PATH \o <<"/">>)
\* C11 as stated: no handler rejects; every failure, also one of fs.mkdir or
\* of a template's fs.writeFile, comes back as a returned error result
C11_Original ==
  \A p \in Procs : pc[p] # "rejected" /\ ret[p].state # "rejected"

\* a read of a non-empty list of names that are all strings
NamedRead(r) ==
  /\ r.tool = "read_memory_bank"
  /\ ValidFileNames(r.arg)
  /\ Len(r.arg.v) > 0

\* the keys of a results object
Keys(o) == {o[j][1] : j \in 1..Len(o)}

\* the value of key in a results object
ValueOf(o, key) == o[CHOOSE j \in 1..Len(o) : o[j][1] = key][2]

\* C12: each readFile of a read of names records, under the name, the text
\* of the document, or null when the document is missing or cannot be read,
\* and goes on to the next name; the results then have one key for each name
\* read so far, and the handler returns them, not an error, after the last
C12_ReadTolerant ==
  [][\A p \in Procs :
       (pc[p] = "read_file" /\ (pc'[p] # pc[p] \/ loc'[p] # loc[p])) =>
         LET names == req[p].arg.v
             i == loc[p].i
             path == loc[p].filePath
             rs == IF pc'[p] = "done" THEN ret'[p].read ELSE loc'[p].readResults
             exists == path \in DOMAIN files /\ path \notin Dirs(rootExists)
         IN /\ NamedRead(req[p])
            /\ path = PathJoin(MEMORY_BANK_PATH, names[i].v)
            /\ Keys(rs) = {names[j].v : j \in 1..i}
            /\ Len(rs) = Cardinality(Keys(rs))
            /\ ValueOf(rs, names[i].v) =
                 IF exists /\ faults' = faults THEN Str(files[path]) ELSE Null
            /\ \A j \in 1..Len(loc[p].readResults) :
                 loc[p].readResults[j][1] # names[i].v
                   => loc[p].readResults[j] \in {rs[m] : m \in 1..Len(rs)}
            /\ IF i < Len(names)
                 THEN pc'[p] = "read_file" /\ loc'[p].i = i + 1
                 ELSE /\ pc'[p] = "done"
                      /\ ret'[p].state = "returned"
                      /\ ret'[p].shape = "read"
                      /\ ~ret'[p].isError]_vars

\* a read of missing.md and decisionLog.md returned null and the document
C12_Witness ==
  \E p \in Procs :
    /\ pc[p] = "done"
    /\ ~ret[p].isError
    /\ ret[p].read = << <<missing_md, Null>>, <<decisionLog_md, Str(ExampleBody)>> >>

\* a target of an append whose file_name or entry is the empty string
EmptyField(e) ==
  /\ e.t = "object"
  /\ \/ file_name(e) = Str(<<>>)
     \/ entry_of(e) = Str(<<>>)

\* C13 as stated: a target with an empty file_name or entry is rejected: the
\* call returns the validation error, or at least that target's result is an
\* error, so that nothing is written for it
C13_Original ==
  \A p \in Procs :
    (pc[p] = "done" /\ req[p].tool = "append_memory_bank" /\ req[p].arg.t = "array") =>
      \A j \in 1..Len(req[p].arg.v) :
        EmptyField(req[p].arg.v[j]) =>
          \/ ret[p].shape = "error"
          \/ /\ Len(ret[p].results) >= j
             /\ ret[p].results[j].status = "error"
\* the step is a successful section append of request p onto a document
\* that exists
RewritesDocument(p) ==
  /\ Succeeds(p, "app_write")
  /\ loc[p].filePath \in DOMAIN files

\* C14 as stated: a section append onto an existing header keeps every
\* character of the prior body in place: the new body is the prior body with
\* one text, which holds the entry line, put in at one point
C14_Original ==
  [][\A p \in Procs : RewritesDocument(p) =>
       LET b == files[loc[p].filePath]
           n == files'[loc[p].filePath]
       IN /\ Len(n) >= Len(b)
          /\ \E k \in 0..Len(b) :
               /\ Slice(n, 0, k) = Slice(b, 0, k)
               /\ Slice(n, Len(n) - (Len(b) - k), Len(n)) = Slice(b, k, Len(b))
               /\ Contains(Slice(n, k, Len(n) - (Len(b) - k)), EntryLine(p))]_vars

\* C14 amended: a section append onto an existing header keeps the prior
\* body but for whitespace at the end of the section: the new body is the
\* prior body up to some point, a newline and the entry line, and the prior
\* body from the next "\n##" (or from its end) on; what is left out between
\* the two parts is whitespace only
C14_FrameButTrim ==
  [][\A p \in Procs : RewritesDocument(p) =>
       LET b == files[loc[p].filePath]
           n == files'[loc[p].filePath]
       IN \E m \in {x \in 0..Len(b) : x = Len(b) \/ StartsWith(Slice(b, x, Len(b)), <<"\n","#","#">>)} :
            \E k \in 0..m :
              /\ \A j \in (k + 1)..m : b[j] \in Whitespace
              /\ n = Slice(b, 0, k) \o <<"\n">> \o EntryLine(p) \o Slice(b, m, Len(b))]_vars

\* the entry C went under "## Decision" of the body whose section ends in a
\* space and a blank line: both are gone, the rest of the body is as before
C14_Witness ==
  \E p \in Procs : \E t \in 0..MaxClock :
    /\ pc[p] = "done"
    /\ ret[p].results = <<SuccessItem(decisionLog_md)>>
    /\ InRoot(decisionLog_md) \in DOMAIN files
    /\ files[InRoot(decisionLog_md)] =
         <<"#","#"," ","D","e","c","i","s","i","o","n","\n","A","\n","[">> \o getCurrentTimestamp(t) \o <<"]"," ","-"," ","C","\n","\n","#","#"," ","P","r","o","g","r","e","s","s","\n","B","\n">>
\* the labels at which an iteration of the loop over entries is suspended
InEntryLoop == {"app_read", "app_write", "app_append_hdr", "app_append"}

\* C15: in a batch of well-formed entries each fs call of a target either
\* leads to the target's write or settles the target with one result, which
\* bears the target's file name and is an error, with nothing written, when
\* the call failed; after it the next target is taken up whatever the
\* outcome, and after the last one the handler returns the results, one for
\* each entry, in the order of the batch
C15_BatchIsolated ==
  [][\A p \in Procs :
       (pc[p] \in InEntryLoop /\ (pc'[p] # pc[p] \/ loc'[p] # loc[p])) =>
         LET i == loc[p].i
             rs == IF pc'[p] = "done" THEN ret'[p].results ELSE loc'[p].results
         IN /\ ValidEntries(req[p].arg)
            /\ \/ /\ pc[p] = "app_read"
                  /\ pc'[p] \in {"app_write", "app_append_hdr"}
                  /\ loc'[p].i = i
                  /\ rs = loc[p].results
                  /\ files' = files
               \/ /\ Len(rs) = i
                  /\ SubSeq(rs, 1, i - 1) = loc[p].results
                  /\ rs[i].file = file_name(Entries(p)[i]).v
                  /\ rs[i].status \in {"success", "error"}
                  /\ faults' # faults => rs[i].status = "error"
                  /\ rs[i].status = "error" => files' = files
                  /\ IF i < Len(Entries(p))
                       THEN pc'[p] \in InEntryLoop /\ loc'[p].i = i + 1
                       ELSE /\ pc'[p] = "done"
                            /\ ret'[p].state = "returned"
                            /\ ret'[p].shape = "append"
                            /\ ~ret'[p].isError]_vars

\* of the batch of two appends to notes.md the first failed with an I/O
\* error and the second was written
C15_Witness ==
  \E p \in Procs :
    /\ pc[p] = "done"
    /\ ret[p].results = <<ErrorItem(notes_md, "EIO"), SuccessItem(notes_md)>>
    /\ InRoot(notes_md) \in DOMAIN files
    /\ Contains(files[InRoot(notes_md)], Mark(<<"E">>))
    /\ ~Contains(files[InRoot(notes_md)], Mark(<<"C">>))
\* the labels at which _ensureInitialized is suspended
InEnsureInitialized == {"init_access", "init_mkdir", "init_file_access", "init_write"}

\* C16: whatever the other requests have done to the root in the meantime,
\* a step of initialisation whose fs call meets no I/O fault does not fail:
\* mkdir of a directory that exists by now and writeFile of a document that
\* exists by now succeed, and the request goes on
C16_RaceTolerant ==
  [][\A p \in Procs :
       (pc[p] \in InEnsureInitialized /\ faults' = faults) =>
         /\ pc'[p] # "rejected"
         /\ ret'[p].state # "rejected"
         /\ pc[p] = "init_mkdir" /\ pc'[p] # pc[p] => rootExists']_vars

\* two requests both found the root absent, both initialised it and both
\* returned, with no fault
C16_Witness ==
  /\ faults = 0
  /\ \A p \in Callers :
       /\ hist[p].foundAbsent
       /\ pc[p] = "done"
       /\ ret[p].state = "returned"
       /\ ~ret[p].isError
\* the names of the files that lie directly in the root and end in ".md"
MarkdownInRoot ==
  LET prefix == MEMORY_BANK_PATH \o <<"/">>
      direct == {q \in DOMAIN files :
                   /\ Len(q) > Len(prefix)
                   /\ SubSeq(q, 1, Len(prefix)) = prefix
                   /\ \A j \in (Len(prefix) + 1)..Len(q) : q[j] # "/"}
      names == {SubSeq(q, Len(prefix) + 1, Len(q)) : q \in direct}
  IN {n \in names : Len(n) >= 3 /\ SubSeq(n, Len(n) - 2, Len(n)) = <<".","m","d">>}

\* C17: a read whose file_names is omitted or empty ends with the readdir of
\* the root; unless that fails, it returns as the listing exactly the names
\* of the root's entries that end in ".md", and no contents
C17_ListsMarkdown ==
  [][\A p \in Procs :
       (pc[p] = "readdir" /\ pc'[p] # pc[p]) =>
         /\ req[p].tool = "read_memory_bank"
         /\ req[p].arg \in {Undefined, Arr(<<>>)}
         /\ pc'[p] = "done"
         /\ ret'[p].state = "returned"
         /\ ret'[p].read = <<>>
         /\ ret'[p].results = <<>>
         /\ IF faults' # faults
              THEN ret'[p].isError
              ELSE /\ ~ret'[p].isError
                   /\ ret'[p].shape = "list"
                   /\ ret'[p].listing = MarkdownInRoot]_vars

\* the root holds progress.md and readme.txt, and the listing returned is
\* progress.md alone
C17_Witness ==
  \E p \in Procs :
    /\ pc[p] = "done"
    /\ ret[p].shape = "list"
    /\ ret[p].listing = {progress_md}
    /\ InRoot(readme_txt) \in DOMAIN files
    /\ InRoot(progress_md) \in DOMAIN files
\* C18 as stated: once no request is inside initialisation any more, the
\* entry of an append to the catalog document progress.md that reported
\* success is in the document
C18_Original ==
  \A p \in Procs :
    ( /\ pc[p] = "done"
      /\ req[p].tool = "append_memory_bank"
      /\ req[p].arg = Arr(<<Obj(Str(progress_md), Str(<<"C">>), Undefined)>>)
      /\ ret[p].results = <<SuccessItem(progress_md)>>
      /\ \A q \in Procs : pc[q] \notin InEnsureInitialized ) =>
        /\ InRoot(progress_md) \in DOMAIN files
        /\ Contains(files[InRoot(progress_md)], Mark(<<"C">>))
\* the texts of the entry lines of s, in the order they stand in s
RECURSIVE EntryTexts(_)
EntryTexts(s) ==
  LET i == IndexOf(s, <<"]"," ","-"," ">>, 0)
  IN IF i = -1 THEN <<>>
     ELSE LET rest == Slice(s, i + 4, Len(s))
              j == IndexOf(rest, <<"\n">>, 0)
          IN IF j = -1 THEN <<rest>>
             ELSE <<Slice(rest, 0, j)>> \o EntryTexts(Slice(rest, j, Len(rest)))

\* what stands in s between the first occurrence of header h and the next
\* "\n##" after it, or the end of s
SectionOf(s, h) ==
  LET hi == IndexOf(s, h, 0)
      nx == IndexOf(s, <<"\n","#","#">>, hi + Len(h))
  IN Slice(s, hi + Len(h), IF nx = -1 THEN Len(s) ELSE nx)

\* the entry texts of the first n requests that appended under header h and
\* reported success, in the order the requests were made
RECURSIVE Appended(_, _)
Appended(h, n) ==
  IF n = 0 THEN <<>>
  ELSE Appended(h, n - 1) \o
         (IF /\ pc[n] = "done"
             /\ section_header(req[n].arg.v[1]) = Str(h)
             /\ ret[n].results = <<SuccessItem(file_name(req[n].arg.v[1]).v)>>
            THEN <<entry_of(req[n].arg.v[1]).v>> ELSE <<>>)

\* C19: after successive appends under one header to decisionLog.md, the
\* entry lines between the first occurrence of the header and the next
\* "\n##" (or the end of the document) are those of the appends that
\* succeeded, all of them, in the order the appends were made
C19_SectionOrder ==
  \A h \in {Decision, Done} :
    Appended(h, NProcs) # <<>> =>
      /\ InRoot(decisionLog_md) \in DOMAIN files
      /\ Contains(files[InRoot(decisionLog_md)], h)
      /\ EntryTexts(SectionOf(files[InRoot(decisionLog_md)], h)) = Appended(h, NProcs)

\* C then E were appended under "## Decision" and stand in its section in
\* that order
C19_Witness ==
  /\ Len(Appended(Decision, NProcs)) >= 2
  /\ SubSeq(Appended(Decision, NProcs), 1, 2) = <<<<"C">>, <<"E">>>>
  /\ SubSeq(EntryTexts(SectionOf(files[InRoot(decisionLog_md)], Decision)), 1, 2) = <<<<"C">>, <<"E">>>>

\* the number of occurrences of pat in s
RECURSIVE Occurrences(_, _)
Occurrences(s, pat) ==
  LET i == IndexOf(s, pat, 0)
  IN IF i = -1 THEN 0
     ELSE 1 + Occurrences(Slice(s, i + Len(pat), Len(s)), pat)

\* C20: once an append under a header has succeeded, decisionLog.md holds
\* the header exactly once, however many appends under it follow: the first
\* adds the header when the document lacks it and the later ones find it
C20_HeaderOnce ==
  \A h \in {Decision, Done} :
    Appended(h, NProcs) # <<>> =>
      /\ InRoot(decisionLog_md) \in DOMAIN files
      /\ Occurrences(files[InRoot(decisionLog_md)], h) = 1

\* "## Done", which no document holds at the start, has been appended under
\* twice and stands in the document once, with both entries
C20_Witness ==
  /\ Len(Appended(Done, NProcs)) >= 2
  /\ Occurrences(files[InRoot(decisionLog_md)], Done) = 1
  /\ Occurrences(files[InRoot(decisionLog_md)], <<"]"," ","-"," ">>) >= 2
====
